---- MODULE Spec2Model ----
(***************************************************************************)
(* Model of the video acquisition logic of VimeoTranscribe                 *)
(* (src/wistia_extractor.py): identifier resolution (extract_video_id),    *)
(* platform classification (is_vimeo_url), the generic downloader with its *)
(* cookie handling (download_video_with_ytdlp) and the strategy chain      *)
(* (extract_and_download), followed by the stages of the driver           *)
(* (src/main.py: extract_audio, transcribe_audio, cleanup_files,           *)
(* save_transcript, the exit status) and the KeyboardInterrupt handler.    *)
(*                                                                         *)
(* Python strings are sequences of one-character strings; None and the     *)
(* empty string are both the empty sequence (the code only tests them with *)
(* `not x` / `if x`).                                                      *)
(***************************************************************************)
EXTENDS Integers, Sequences, FiniteSets, TLC

VARIABLES
    video_input,   \* main(): the stripped, non-empty line handed to extract_and_download
    pc,            \* position in the code
    video_id,      \* extract_and_download: video_id
    matched_by,    \* which return statement of extract_video_id produced video_id
    assets,        \* data['media']['assets'] of the metadata document last fetched
    asset_sel,     \* index in assets of the descriptor whose url became video_url (0: none)
    yt_url,        \* download_video_with_ytdlp: video_url
    yt_name,       \* download_video_with_ytdlp: video_id (used in the file name)
    yt_site,       \* line of extract_and_download that called download_video_with_ytdlp
    cookies,       \* 'cookiesfrombrowser' in the options of the latest attempt ("none": absent)
    hook_file,     \* downloaded_filename[0], "none" while it is None
    err_kind,      \* the exception of the first yt-dlp attempt, "none" when it returned
    calls,         \* every network operation performed so far, in order
    disk,          \* the temporary directory: file name -> "absent" | "partial" | "complete"
    video_path,    \* extract_and_download: video_path
    result,        \* the value extract_and_download returned
    raised,        \* TRUE when an exception left extract_and_download
    embed_ref,     \* whether the metadata document last fetched holds media.embed
    audio_path,    \* main(): audio_path, "none" while it is None
    transcript,    \* main(): transcript, "none" while it is None
    stages,        \* the stages main() has invoked after the download, in order
    cleaned,       \* the paths main() has passed to cleanup_files
    interrupted,   \* TRUE when a KeyboardInterrupt reached the handler of main.py line 111
    exit_code      \* the exit status of the process, -1 while it runs

vars == <<video_input, pc, video_id, matched_by, assets, asset_sel, yt_url, yt_name,
          yt_site, cookies, hook_file, err_kind, calls, disk, video_path, result, raised,
          embed_ref, audio_path, transcript, stages, cleaned, interrupted, exit_code>>

\* the variables of main() after the download
mainVars == <<audio_path, transcript, stages, cleaned, interrupted, exit_code>>

\* ---------------------------------------------------------------- strings

None == << >>

LowerLetters == <<"a", "b", "c", "d", "e", "f", "g", "h", "i", "j", "k", "l", "m",
                  "n", "o", "p", "q", "r", "s", "t", "u", "v", "w", "x", "y", "z">>

UpperLetters == <<"A", "B", "C", "D", "E", "F", "G", "H", "I", "J", "K", "L", "M",
                  "N", "O", "P", "Q", "R", "S", "T", "U", "V", "W", "X", "Y", "Z">>

Digits == {"0", "1", "2", "3", "4", "5", "6", "7", "8", "9"}

Range(f) == {f[i] : i \in DOMAIN f}

\* the character class [a-z0-9]
AlnumLower == Range(LowerLetters) \cup Digits

LowerOf ==
    [c \in Range(UpperLetters) |->
        LowerLetters[CHOOSE i \in DOMAIN UpperLetters : UpperLetters[i] = c]]

LowerChar(c) == IF c \in DOMAIN LowerOf THEN LowerOf[c] ELSE c

\* str.lower()
Lower(s) == [i \in DOMAIN s |-> LowerChar(s[i])]

\* the literal lit occurs in s at position p
MatchAt(lit, s, p) ==
    /\ p + Len(lit) - 1 <= Len(s)
    /\ \A i \in 1..Len(lit) : s[p + i - 1] = lit[i]

\* `sub in s`
Contains(sub, s) == \E p \in 1..Len(s) : MatchAt(sub, s, p)

\* last index of the longest run of characters of cls that starts at p (p-1: empty run)
RunEnd(cls, s, p) ==
    CHOOSE e \in (p - 1)..Len(s) :
        /\ \A i \in p..e : s[i] \in cls
        /\ (e = Len(s) \/ s[e + 1] \notin cls)

Min(S) == CHOOSE x \in S : \A y \in S : x <= y

\* re.search(lit + '(cls+)', s).group(1): the leftmost match, the group greedy; None
\* when there is no match
SearchGroup(lit, cls, s) ==
    LET starts == {p \in 1..Len(s) :
                      /\ MatchAt(lit, s, p)
                      /\ p + Len(lit) <= Len(s)
                      /\ s[p + Len(lit)] \in cls}
    IN  IF starts = {} THEN None
        ELSE LET b == Min(starts) + Len(lit)
             IN  SubSeq(s, b, RunEnd(cls, s, b))

\* re.search(lit + '(\d+)/([a-z0-9]+)', s).group(1): the digits must run up to a "/"
\* that an alphanumeric character follows
SearchGroupHash(lit, s) ==
    LET starts == {p \in 1..Len(s) :
                      /\ MatchAt(lit, s, p)
                      /\ p + Len(lit) <= Len(s)
                      /\ s[p + Len(lit)] \in Digits
                      /\ LET e == RunEnd(Digits, s, p + Len(lit))
                         IN  /\ e + 2 <= Len(s)
                             /\ s[e + 1] = "/"
                             /\ s[e + 2] \in AlnumLower}
    IN  IF starts = {} THEN None
        ELSE LET b == Min(starts) + Len(lit)
             IN  SubSeq(s, b, RunEnd(Digits, s, b))

\* ---------------------------------------------------------------- extract_video_id

MinIdLen == 8

\* the bare-identifier test with the class \d in place of [a-z0-9]
IsBareIdDigitsOnly(s) ==
    /\ Len(s) >= MinIdLen
    /\ \A i \in 1..Len(s) : s[i] \in Digits

\* re.match(r'^[a-z0-9]{8,}$', s): `$` also matches just before a final newline
IsBareId(s) ==
    \E n \in {Len(s), Len(s) - 1} :
        /\ n >= MinIdLen
        /\ \A i \in 1..n : s[i] \in AlnumLower
        /\ (n < Len(s) => s[Len(s)] = "\n")

L_vimeo == <<"v", "i", "m", "e", "o", ".", "c", "o", "m", "/">>
L_player == <<"p", "l", "a", "y", "e", "r", ".", "v", "i", "m", "e", "o", ".", "c", "o", "m",
              "/", "v", "i", "d", "e", "o", "/">>
L_wistia_medias == <<"w", "i", "s", "t", "i", "a", ".", "c", "o", "m", "/",
                     "m", "e", "d", "i", "a", "s", "/">>
L_wist == <<"w", "i", ".", "s", "t", "/">>
L_wistia_embed == <<"w", "i", "s", "t", "i", "a", ".", "n", "e", "t", "/",
                    "e", "m", "b", "e", "d", "/">>
L_medias == <<"m", "e", "d", "i", "a", "s", "/">>

\* vimeo_patterns (1..3) followed by wistia_patterns (4..7), numbered in source order
PatternGroup(k, s) ==
    CASE k = 1 -> SearchGroup(L_vimeo, Digits, s)
      [] k = 2 -> SearchGroupHash(L_vimeo, s)
      [] k = 3 -> SearchGroup(L_player, Digits, s)
      [] k = 4 -> SearchGroup(L_wistia_medias, AlnumLower, s)
      [] k = 5 -> SearchGroup(L_wist, AlnumLower, s)
      [] k = 6 -> SearchGroup(L_wistia_embed, AlnumLower, s)
      [] k = 7 -> SearchGroup(L_medias, AlnumLower, s)

\* the order in which the two loops try the patterns
PatternOrder == <<1, 2, 3, 4, 5, 6, 7>>

\* the patterns searched in url_or_id itself
MatchTextRaw(s) == s

\* the text every pattern is searched in: url_or_id.lower()
MatchText(s) == Lower(s)

\* position in PatternOrder of the first pattern that matches (0: none does)
FirstMatch(s) ==
    LET hits == {j \in DOMAIN PatternOrder : PatternGroup(PatternOrder[j], MatchText(s)) /= None}
    IN  IF hits = {} THEN 0 ELSE Min(hits)

\* which return statement of extract_video_id is taken: "bare" (line 27), the number
\* of the pattern whose match is returned (lines 40, 53), or "none" (line 55)
MatchedBy(s) ==
    IF IsBareId(Lower(s)) THEN "bare"
    ELSE IF FirstMatch(s) = 0 THEN "none"
    ELSE ToString(PatternOrder[FirstMatch(s)])

extract_video_id(s) ==
    IF IsBareId(Lower(s)) THEN Lower(s)
    ELSE IF FirstMatch(s) = 0 THEN None
    ELSE PatternGroup(PatternOrder[FirstMatch(s)], MatchText(s))

\* ---------------------------------------------------------------- is_vimeo_url

L_http == <<"h", "t", "t", "p">>
L_vimeo_host == <<"v", "i", "m", "e", "o", ".", "c", "o", "m">>
L_wistia_host == <<"w", "i", "s", "t", "i", "a", ".", "c", "o", "m">>

\* re.match(r'^\d+$', s)
IsAllDigits(s) ==
    \E n \in {Len(s), Len(s) - 1} :
        /\ n >= 1
        /\ \A i \in 1..n : s[i] \in Digits
        /\ (n < Len(s) => s[Len(s)] = "\n")

is_vimeo_url(s) == Contains(L_vimeo_host, Lower(s)) \/ IsAllDigits(s)

\* ---------------------------------------------------------------- inputs

MaxTail == 2

IdChars == {"a", "7", "Z", "-"}

Tails == UNION {[1..k -> IdChars] : k \in 0..MaxTail}

Pads == {<< >>,
         <<"1", "2", "3", "4", "5", "6", "7">>,
         <<"a", "b", "c", "1", "2", "3", "4">>}

Schemes == {<< >>,
            <<"h", "t", "t", "p", ":", "/", "/">>,
            <<"h", "t", "t", "p", "s", ":", "/", "/">>,
            <<"H", "T", "T", "P", "S", ":", "/", "/">>}

Hosts == {<< >>,
          L_vimeo,
          <<"V", "I", "M", "E", "O", ".", "C", "O", "M", "/">>,
          L_player,
          L_wistia_medias,
          <<"W", "i", "s", "t", "i", "a", ".", "c", "o", "m", "/", "m", "e", "d", "i", "a", "s", "/">>,
          L_wist,
          <<"f", "a", "s", "t", ".">> \o L_wistia_embed,
          L_medias,
          <<"e", "x", "a", "m", "p", "l", "e", ".", "c", "o", "m", "/">>,
          <<"n", "o", "t", " ", "a", " ", "u", "r", "l", " ", "o", "r", " ">>}

Suffixes == {<< >>,
             <<"?", "r", "=", "v", "i", "m", "e", "o", ".", "c", "o", "m", "/", "5">>,
             <<"?", "r", "=", "v", "i", "m", "e", "o", ".", "c", "o", "m">>}

\* the inputs of the resolver on its own
ResolveInputs ==
    {sc \o h \o p \o t \o sf :
        sc \in Schemes, h \in Hosts, p \in Pads, t \in Tails, sf \in Suffixes} \ {<< >>}

RunIds == {<< >>,
           <<"-">>,
           <<"i", "d">>,
           <<"1", "2", "3", "4", "5", "6", "7">>,
           <<"1", "2", "3", "4", "5", "6", "7", "7">>,
           <<"a", "b", "c", "1", "2", "3", "4", "5", "6", "7">>}

\* the inputs of a whole run
RunInputs ==
    {sc \o h \o id \o sf :
        sc \in Schemes, h \in Hosts, id \in RunIds, sf \in Suffixes} \ {<< >>}

\* ---------------------------------------------------------------- asset selection

MaxDim == 2

MaxAssets == 3

\* an asset descriptor of data['media']['assets']: width and height are 0 when the
\* key is absent (x.get('width', 0)); hasUrl says whether the key 'url' is present
Asset(t, u, w, h) == [type |-> t, hasUrl |-> u, width |-> w, height |-> h]

AssetUniverse ==
    {Asset(t, TRUE, w, h) : t \in {"original", "mp4"}, w \in 0..MaxDim, h \in 0..1}
    \cup {Asset("original", FALSE, 0, 0), Asset("mp4", FALSE, MaxDim, 0),
          Asset("hls", TRUE, MaxDim, 1)}

AssetLists == UNION {[1..k -> AssetUniverse] : k \in 0..MaxAssets}

\* the filter of the list comprehension (lines 287-288)
Eligible(a) == a.type = "original" \/ (a.type = "mp4" /\ a.hasUrl)

\* the sort key (line 291): x.get('width', 0) or x.get('height', 0)
SortKey(a) == IF a.width /= 0 THEN a.width ELSE a.height

\* a descending sort that is not stable: of the eligible descriptors with the largest
\* key, the last in list order comes first
BestIndexLast(lst) ==
    LET el == {i \in DOMAIN lst : Eligible(lst[i])}
    IN  IF el = {} THEN 0
        ELSE CHOOSE i \in el :
                \A j \in el : /\ SortKey(lst[j]) <= SortKey(lst[i])
                              /\ (SortKey(lst[j]) = SortKey(lst[i]) => j <= i)

\* index in lst of video_assets[0] after the stable descending sort (0: video_assets
\* is empty): the first eligible descriptor, in list order, whose key is largest
BestIndex(lst) ==
    LET el == {i \in DOMAIN lst : Eligible(lst[i])}
    IN  IF el = {} THEN 0
        ELSE Min({i \in el : \A j \in el : SortKey(lst[j]) <= SortKey(lst[i])})

\* index of the descriptor whose url is video_url; 0 when video_url stays None
\* (no eligible descriptor, or video_assets[0].get('url') is None)
SelectAsset(lst) ==
    IF BestIndex(lst) /= 0 /\ lst[BestIndex(lst)].hasUrl THEN BestIndex(lst) ELSE 0

\* the metadata documents of a whole run; << >> also stands for a document without
\* 'media' or without 'assets' (video_url stays None either way)
MetaDocs ==
    {<< >>,
     <<Asset("mp4", TRUE, 1, 0), Asset("original", TRUE, 0, 0), Asset("mp4", TRUE, 2, 0)>>,
     <<Asset("original", TRUE, 2, 1)>>,
     <<Asset("original", FALSE, 0, 0), Asset("mp4", TRUE, 0, 0)>>,
     <<Asset("hls", TRUE, 2, 1), Asset("mp4", FALSE, 2, 0)>>}

\* ---------------------------------------------------------------- state

Files == {"wistia_mp4", "video_ext", "video_fmt", "audio_wav", "transcript_txt"}
\* wistia_mp4: wistia_<id>.mp4 (line 302); video_ext: video_<id>.<ext>, the file the
\* output template names, with one of the probed extensions; video_fmt: a
\* per-format file yt-dlp downloads and removes when it merges the formats;
\* audio_wav: wistia_<id>_audio.wav (audio_processor.py line 32); transcript_txt:
\* transcript_<id>.txt (main.py line 23)

EmptyDisk == [f \in Files |-> "absent"]

Exists(d, f) == d[f] /= "absent"

NoResult == [id |-> None, path |-> "none"]

Idle ==
    /\ video_id = None
    /\ matched_by = "none"
    /\ asset_sel = 0
    /\ yt_url = None
    /\ yt_name = None
    /\ yt_site = 0
    /\ cookies = "none"
    /\ hook_file = "none"
    /\ err_kind = "none"
    /\ calls = << >>
    /\ disk = EmptyDisk
    /\ video_path = "none"
    /\ result = NoResult
    /\ raised = FALSE
    /\ embed_ref = FALSE
    /\ audio_path = "none"
    /\ transcript = "none"
    /\ stages = << >>
    /\ cleaned = {}
    /\ interrupted = FALSE
    /\ exit_code = -1

\* main() has read a non-empty line and calls extract_and_download (line 55)
Init ==
    /\ video_input \in RunInputs
    /\ pc = "ed_start"
    /\ assets = << >>
    /\ Idle

L_vimeo_url == <<"h", "t", "t", "p", "s", ":", "/", "/">> \o L_vimeo
L_embed_url == <<"h", "t", "t", "p", "s", ":", "/", "/", "f", "a", "s", "t", ".">>
               \o L_wistia_host \o <<"/", "e", "m", "b", "e", "d", "/">> \o L_medias
L_json == <<".", "j", "s", "o", "n">>
L_video == <<"v", "i", "d", "e", "o">>

\* line 277
ApiUrl(id) == L_embed_url \o id \o L_json

\* the URL of the metadata document in place of the embed page
EmbedUrlJson(id) == ApiUrl(id)

\* line 320
EmbedUrl(id) == L_embed_url \o id

\* the URL of the descriptor lst[i]
AssetUrl(i) == <<"asset", ToString(i)>>

Call(op, url, ck, res) == [op |-> op, url |-> url, cookies |-> ck, res |-> res]

\* every input taken for a URL
DirectUrlAlways(s) == TRUE

\* the test of line 249
DirectUrlLike(s) ==
    \/ Contains(L_http, s)
    \/ Contains(L_vimeo_host, Lower(s))
    \/ Contains(L_wistia_host, Lower(s))

\* a test that looks for the scheme alone
UseGenericOnlyHttp(s) == Contains(L_http, s)

\* the test of line 269
UseGenericOnly(s) == is_vimeo_url(s) \/ Contains(L_http, s)

\* the input itself handed to yt-dlp
FallbackUrlRaw(s, id) == s

\* the URL handed to yt-dlp when the Wistia API method raised (line 325)
FallbackUrl(s, id) == IF Contains(L_http, s) THEN s ELSE EmbedUrl(id)

CallYtdlp(url, name, site) ==
    /\ yt_url' = url
    /\ yt_name' = name
    /\ yt_site' = site
    /\ pc' = "yt_config"

\* extract_and_download, lines 244-272: resolve the identifier and pick the branch
ED_Resolve ==
    /\ pc = "ed_start"
    /\ video_id' = extract_video_id(video_input)
    /\ matched_by' = MatchedBy(video_input)
    /\ IF video_id' = None
       THEN IF DirectUrlLike(video_input)
            THEN /\ CallYtdlp(video_input, L_video, 251)
                 /\ UNCHANGED result
            ELSE /\ pc' = "returned"
                 /\ result' = NoResult
                 /\ UNCHANGED <<yt_url, yt_name, yt_site>>
       ELSE IF UseGenericOnly(video_input)
            THEN /\ CallYtdlp(IF Contains(L_http, video_input) THEN video_input
                              ELSE L_vimeo_url \o video_id',
                              video_id', 272)
                 /\ UNCHANGED result
            ELSE /\ pc' = "wistia_meta"
                 /\ UNCHANGED <<yt_url, yt_name, yt_site, result>>
    /\ UNCHANGED <<video_input, assets, asset_sel, cookies, hook_file, err_kind, calls,
                   disk, video_path, raised>>
    /\ UNCHANGED <<embed_ref, mainVars>>

\* lines 275-292, 318-326: the metadata request and the selection of the asset URL;
\* the request, raise_for_status or json() may raise. The document may hold
\* media.embed (e); no line reads it
ED_WistiaMetadata ==
    /\ pc = "wistia_meta"
    /\ \/ /\ calls' = Append(calls, Call("api_get", ApiUrl(video_id), "none", "error"))
          /\ CallYtdlp(FallbackUrl(video_input, video_id), video_id, 326)
          /\ UNCHANGED <<assets, asset_sel, embed_ref>>
       \/ \E doc \in MetaDocs, e \in BOOLEAN :
             /\ calls' = Append(calls, Call("api_get", ApiUrl(video_id), "none", "ok"))
             /\ assets' = doc
             /\ embed_ref' = e
             /\ asset_sel' = SelectAsset(doc)
             /\ IF asset_sel' /= 0
                THEN /\ pc' = "wistia_dl"
                     /\ UNCHANGED <<yt_url, yt_name, yt_site>>
                ELSE CallYtdlp(EmbedUrl(video_id), video_id, 321)
    /\ UNCHANGED <<video_input, video_id, matched_by, cookies, hook_file, err_kind, disk,
                   video_path, result, raised>>
    /\ UNCHANGED mainVars

\* a download whose completion goes unnoticed
DownloadCompletedNever(o) == FALSE

\* lines 294-317: the try block reaches `return video_id, video_path` (line 317)
\* when neither the request nor the writing of the file raised
DownloadCompleted(o) == o = "ok"

\* lines 294-317, 322-326: the direct download of the asset. "refused": the request
\* raises before the file is opened; "broken": the stream breaks while the file is
\* written; "ok": the file is written whole
ED_WistiaDownload ==
    /\ pc = "wistia_dl"
    /\ \E o \in {"refused", "broken", "ok"} :
          /\ calls' = Append(calls, Call("asset_get", AssetUrl(asset_sel), "none",
                                         IF o = "ok" THEN "ok" ELSE "error"))
          /\ disk' = CASE o = "refused" -> disk
                       [] o = "broken" -> [disk EXCEPT !["wistia_mp4"] = "partial"]
                       [] o = "ok" -> [disk EXCEPT !["wistia_mp4"] = "complete"]
          /\ IF DownloadCompleted(o)
             THEN /\ video_path' = "wistia_mp4"
                  /\ pc' = "ed_tail"
                  /\ UNCHANGED <<yt_url, yt_name, yt_site>>
             ELSE /\ CallYtdlp(FallbackUrl(video_input, video_id), video_id, 326)
                  /\ UNCHANGED video_path
    /\ UNCHANGED <<video_input, video_id, matched_by, assets, asset_sel, cookies,
                   hook_file, err_kind, result, raised>>
    /\ UNCHANGED <<embed_ref, mainVars>>

\* ---------------------------------------------------------------- download_video_with_ytdlp

\* lines 113-117
browsers_to_try == <<"edge", "firefox", "chrome">>

\* the first store for every URL
CookieSourceAlways(url) == browsers_to_try[1]

\* lines 111-130: the loop over browsers_to_try. The body of its try block is a
\* dictionary assignment and a print, which do not raise, so the first iteration
\* sets the option and breaks
CookieSource(url) ==
    IF Contains(L_vimeo_host, Lower(url)) THEN browsers_to_try[1] ELSE "none"

\* what one run of ydl.download can do. exc: the exception it raises ("none": it
\* returns); msg: the class of the message of that exception, as the handlers test it
\* ("cookie": contains 'cookie database' or 'could not copy'); hook: the file name
\* the progress hook last saw with status 'finished'; ext: whether video_ext exists
\* afterwards
Outcome(e, m, h, x) == [exc |-> e, msg |-> m, hook |-> h, ext |-> x]

YtReturns ==
    {Outcome("none", "none", "video_ext", TRUE),
     Outcome("none", "none", "video_fmt", TRUE),
     Outcome("none", "none", "none", TRUE),
     Outcome("none", "none", "none", FALSE)}

YtRaises ==
    {Outcome(e, m, h, FALSE) :
        e \in {"DownloadError", "Exception"}, m \in {"cookie", "login", "other"},
        h \in {"none", "video_fmt"}}

\* lines 166, 206
IsCookieError(m) == m = "cookie"

\* lines 82-130: the options of the first attempt
YT_Configure ==
    /\ pc = "yt_config"
    /\ hook_file' = "none"
    /\ cookies' = CookieSource(yt_url)
    /\ err_kind' = "none"
    /\ pc' = "yt_first"
    /\ UNCHANGED <<video_input, video_id, matched_by, assets, asset_sel, yt_url, yt_name,
                   yt_site, calls, disk, video_path, result, raised>>
    /\ UNCHANGED <<embed_ref, mainVars>>

\* the extension probe (lines 153-158, 181-186, 215-220)
Probe(d) == IF Exists(d, "video_ext") THEN "video_ext" ELSE "none"

\* a test of the recorded name alone, without os.path.exists
HookFileRecorded(h, d) == h /= "none"

\* lines 137-139, 176-178
HookFileUsable(h, d) == h /= "none" /\ Exists(d, h)

\* lines 132-166, 203-206: the first attempt and the choice of the handler
YT_First ==
    /\ pc = "yt_first"
    /\ \E o \in YtReturns \cup YtRaises :
          LET d == IF o.ext THEN [disk EXCEPT !["video_ext"] = "complete"] ELSE disk
              h == IF o.hook /= "none" THEN o.hook ELSE hook_file
              first == Call("ytdlp", yt_url, cookies,
                            IF o.exc = "none" THEN "ok" ELSE o.msg)
          IN  /\ disk' = d
              /\ hook_file' = h
              /\ err_kind' = o.exc
              /\ IF o.exc = "none"
                 THEN /\ pc' = "ed_tail"
                      /\ IF HookFileUsable(h, d)
                         THEN /\ video_path' = h
                              /\ calls' = Append(calls, first)
                         ELSE \* lines 143-158: extract_info, then the probe
                              /\ video_path' = Probe(d)
                              /\ calls' = calls \o
                                    <<first, Call("ytdlp_info", yt_url, cookies, "ok")>>
                 ELSE /\ calls' = Append(calls, first)
                      /\ IF IsCookieError(o.msg)
                         THEN /\ pc' = "yt_retry"
                              /\ UNCHANGED video_path
                         ELSE /\ pc' = "ed_tail"
                              /\ video_path' = "none"
    /\ UNCHANGED <<video_input, video_id, matched_by, assets, asset_sel, yt_url, yt_name,
                   yt_site, cookies, result, raised>>
    /\ UNCHANGED <<embed_ref, mainVars>>

\* a retry whose handler is `except yt_dlp.utils.DownloadError`
RetryCaughtDownloadErrorOnly(handler, exc) == exc = "DownloadError"

\* whether the retry's own handler catches exception exc, in the handler of the
\* first attempt's exception: `except Exception` (line 187), bare `except` (line 221)
RetryCaught(handler, exc) ==
    IF handler = "DownloadError" THEN exc \in {"DownloadError", "Exception"} ELSE TRUE

\* a retry that keeps the option
RetryCookiesKept(ck) == ck

\* cookiesfrombrowser in the options of the retry (lines 170-171, 209-210)
RetryCookies(ck) == "none"

\* the file the retry returns after ydl.download returned: the handler of
\* DownloadError looks at the hook's file first (lines 176-186), the handler of
\* Exception only probes (lines 214-220)
RetryFound(handler, h, d) ==
    IF handler = "DownloadError" /\ HookFileUsable(h, d) THEN h ELSE Probe(d)

\* a retry that is retried while its message names the cookie store
AfterRetryFailureAgain(msg) == IF IsCookieError(msg) THEN "yt_retry" ELSE "ed_tail"

\* where a retry that failed goes on: lines 187-202 and 221-229 lead to `return
\* None` whatever the message of the retry's exception
AfterRetryFailure(msg) == "ed_tail"

\* lines 166-202, 206-229: the retry without cookies and the return of None
YT_Retry ==
    /\ pc = "yt_retry"
    /\ cookies' = RetryCookies(cookies)
    /\ \E o \in YtReturns \cup YtRaises :
          LET d == IF o.ext THEN [disk EXCEPT !["video_ext"] = "complete"] ELSE disk
              h == IF o.hook /= "none" THEN o.hook ELSE hook_file
          IN  /\ disk' = d
              /\ hook_file' = h
              /\ calls' = Append(calls, Call("ytdlp", yt_url, cookies',
                                             IF o.exc = "none" THEN "ok" ELSE o.msg))
              /\ IF o.exc = "none"
                 THEN /\ video_path' = RetryFound(err_kind, h, d)
                      /\ pc' = "ed_tail"
                      /\ UNCHANGED raised
                 ELSE IF RetryCaught(err_kind, o.exc)
                      THEN /\ video_path' = "none"
                           /\ pc' = AfterRetryFailure(o.msg)
                           /\ UNCHANGED raised
                      ELSE /\ raised' = TRUE
                           /\ pc' = "raised"
                           /\ UNCHANGED video_path
    /\ UNCHANGED <<video_input, video_id, matched_by, assets, asset_sel, yt_url, yt_name,
                   yt_site, err_kind, result>>
    /\ UNCHANGED <<embed_ref, mainVars>>

\* lines 252-258 (the call of line 251) and 328-331 (every other path)
ED_Return ==
    /\ pc = "ed_tail"
    /\ result' = IF yt_site = 251
                 THEN IF video_path /= "none"
                      THEN [id |-> IF extract_video_id(video_input) /= None
                                   THEN extract_video_id(video_input) ELSE L_video,
                            path |-> video_path]
                      ELSE NoResult
                 ELSE [id |-> video_id, path |-> video_path]
    /\ pc' = "returned"
    /\ UNCHANGED <<video_input, video_id, matched_by, assets, asset_sel, yt_url, yt_name,
                   yt_site, cookies, hook_file, err_kind, calls, disk, video_path, raised>>
    /\ UNCHANGED <<embed_ref, mainVars>>

\* ---------------------------------------------------------------- KeyboardInterrupt

\* main.py lines 111-113: the handler prints and calls sys.exit(0)
InterruptExit ==
    /\ interrupted' = TRUE
    /\ exit_code' = 0
    /\ pc' = "exit"

\* a KeyboardInterrupt raised while extract_and_download waits for the metadata
\* (line 278) or downloads the asset (lines 298-311, the file already open or not).
\* `except Exception` (line 322) does not catch it and main() has no handler
KI_Wistia ==
    /\ pc \in {"wistia_meta", "wistia_dl"}
    /\ IF pc = "wistia_meta"
       THEN /\ calls' = Append(calls, Call("api_get", ApiUrl(video_id), "none", "interrupt"))
            /\ UNCHANGED disk
       ELSE /\ calls' = Append(calls, Call("asset_get", AssetUrl(asset_sel), "none",
                                           "interrupt"))
            /\ \E d \in {"absent", "partial"} : disk' = [disk EXCEPT !["wistia_mp4"] = d]
    /\ InterruptExit
    /\ UNCHANGED <<video_input, video_id, matched_by, assets, asset_sel, yt_url, yt_name,
                   yt_site, cookies, hook_file, err_kind, video_path, result, raised,
                   embed_ref, audio_path, transcript, stages, cleaned>>

\* whether the handler around ydl.download catches a KeyboardInterrupt: the first
\* attempt has `except DownloadError` and `except Exception` (lines 162, 203), the
\* retry after a DownloadError `except Exception` (line 187), the retry after
\* another exception a bare `except:` (line 221)
InterruptCaught(at, handler) == at = "yt_retry" /\ handler = "Exception"

\* a KeyboardInterrupt raised inside ydl.download (lines 135, 174, 212); yt-dlp may
\* have started a per-format file
KI_Ytdlp ==
    /\ pc \in {"yt_first", "yt_retry"}
    /\ LET ck == IF pc = "yt_retry" THEN RetryCookies(cookies) ELSE cookies
       IN  /\ cookies' = ck
           /\ calls' = Append(calls, Call("ytdlp", yt_url, ck, "interrupt"))
    /\ \E d \in {disk["video_fmt"], "partial"} : disk' = [disk EXCEPT !["video_fmt"] = d]
    /\ IF InterruptCaught(pc, err_kind)
       THEN \* line 221-222: pass, then lines 224-229 return None
            /\ video_path' = "none"
            /\ pc' = "ed_tail"
            /\ UNCHANGED <<interrupted, exit_code>>
       ELSE /\ InterruptExit
            /\ UNCHANGED video_path
    /\ UNCHANGED <<video_input, video_id, matched_by, assets, asset_sel, yt_url, yt_name,
                   yt_site, hook_file, err_kind, result, raised, embed_ref, audio_path,
                   transcript, stages, cleaned>>

\* ---------------------------------------------------------------- main

\* a test of the identifier alone
DownloadFailedNoId(r) == r.id = None

\* main.py line 57
DownloadFailed(r) == r.id = None \/ r.path = "none"

\* audio_processor.py lines 59-72: every listed path that exists is removed; a
\* removal that raises leaves the file (rm: whether os.remove works)
cleanup_files(d, paths, rm) ==
    [f \in Files |-> IF f \in paths /\ rm THEN "absent" ELSE d[f]]

\* main.py line 67
CleanupAfterAudioFailure(vp) == {vp}

\* a cleanup that forgets the video
CleanupAudioOnly(vp, ap) == {ap}

\* main.py line 77
CleanupAfterTranscription(vp, ap) == {vp, ap}

\* main.py lines 57-61
MAIN_CheckDownload ==
    /\ pc = "returned"
    /\ IF DownloadFailed(result)
       THEN /\ exit_code' = 1
            /\ pc' = "exit"
       ELSE /\ pc' = "audio"
            /\ UNCHANGED exit_code
    /\ UNCHANGED <<video_input, video_id, matched_by, assets, asset_sel, yt_url, yt_name,
                   yt_site, cookies, hook_file, err_kind, calls, disk, video_path, result,
                   raised, embed_ref, audio_path, transcript, stages, cleaned, interrupted>>

\* main.py lines 63-70 with extract_audio (audio_processor.py lines 12-56). "ok": the
\* wav file is written; "error": ffmpeg raises before writing; "error_partial":
\* ffmpeg raises after it started the file; "interrupt": KeyboardInterrupt, which
\* `except Exception` (line 54) does not catch
MAIN_ExtractAudio ==
    /\ pc = "audio"
    /\ stages' = Append(stages, "extract_audio")
    /\ \E o \in {"ok", "error", "error_partial", "interrupt"}, rm \in BOOLEAN :
          IF o = "ok" /\ result.path \in Files /\ Exists(disk, result.path)
          THEN /\ disk' = [disk EXCEPT !["audio_wav"] = "complete"]
               /\ audio_path' = "audio_wav"
               /\ pc' = "transcribe"
               /\ UNCHANGED <<cleaned, interrupted, exit_code>>
          ELSE LET d == IF o \in {"error_partial", "interrupt"}
                        THEN [disk EXCEPT !["audio_wav"] = "partial"] ELSE disk
               IN  /\ UNCHANGED audio_path
                   /\ IF o = "interrupt"
                      THEN /\ disk' = d
                           /\ InterruptExit
                           /\ UNCHANGED cleaned
                      ELSE /\ disk' = cleanup_files(d, CleanupAfterAudioFailure(result.path),
                                                    rm)
                           /\ cleaned' = cleaned \cup CleanupAfterAudioFailure(result.path)
                           /\ exit_code' = 1
                           /\ pc' = "exit"
                           /\ UNCHANGED interrupted
    /\ UNCHANGED <<video_input, video_id, matched_by, assets, asset_sel, yt_url, yt_name,
                   yt_site, cookies, hook_file, err_kind, calls, video_path, result, raised,
                   embed_ref, transcript>>

\* main.py lines 72-81 with transcribe_audio (transcriber.py lines 36-77), which
\* returns the text, or None on an error status, an empty text or any Exception;
\* a KeyboardInterrupt passes through it
MAIN_Transcribe ==
    /\ pc = "transcribe"
    /\ stages' = Append(stages, "transcribe_audio")
    /\ \E o \in {"text", "none", "interrupt"}, rm \in BOOLEAN :
          IF o = "interrupt"
          THEN /\ InterruptExit
               /\ UNCHANGED <<transcript, disk, cleaned>>
          ELSE /\ transcript' = o
               /\ disk' = cleanup_files(disk,
                                        CleanupAfterTranscription(result.path, audio_path), rm)
               /\ cleaned' = cleaned \cup CleanupAfterTranscription(result.path, audio_path)
               /\ IF o = "none"
                  THEN /\ exit_code' = 1
                       /\ pc' = "exit"
                  ELSE /\ pc' = "save"
                       /\ UNCHANGED exit_code
               /\ UNCHANGED interrupted
    /\ UNCHANGED <<video_input, video_id, matched_by, assets, asset_sel, yt_url, yt_name,
                   yt_site, cookies, hook_file, err_kind, calls, video_path, result, raised,
                   embed_ref, audio_path>>

\* main.py lines 83-105 with save_transcript (lines 12-31), which returns "" when
\* open or write raises; main() then prints a warning and ends normally
MAIN_Save ==
    /\ pc = "save"
    /\ stages' = Append(stages, "save_transcript")
    /\ \E d \in {"absent", "partial", "complete"} :
          disk' = [disk EXCEPT !["transcript_txt"] = d]
    /\ exit_code' = 0
    /\ pc' = "exit"
    /\ UNCHANGED <<video_input, video_id, matched_by, assets, asset_sel, yt_url, yt_name,
                   yt_site, cookies, hook_file, err_kind, calls, video_path, result, raised,
                   embed_ref, audio_path, transcript, cleaned, interrupted>>

Next ==
    \/ ED_Resolve
    \/ ED_WistiaMetadata
    \/ ED_WistiaDownload
    \/ YT_Configure
    \/ YT_First
    \/ YT_Retry
    \/ ED_Return
    \/ KI_Wistia
    \/ KI_Ytdlp
    \/ MAIN_CheckDownload
    \/ MAIN_ExtractAudio
    \/ MAIN_Transcribe
    \/ MAIN_Save

Spec == Init /\ [][Next]_vars

\* ---------------------------------------------------------------- the resolver alone

InitResolve ==
    /\ video_input \in ResolveInputs
    /\ pc = "resolve"
    /\ assets = << >>
    /\ Idle

\* one call of extract_video_id
Resolve ==
    /\ pc = "resolve"
    /\ video_id' = extract_video_id(video_input)
    /\ matched_by' = MatchedBy(video_input)
    /\ pc' = "resolved"
    /\ UNCHANGED <<video_input, assets, asset_sel, yt_url, yt_name, yt_site, cookies,
                   hook_file, err_kind, calls, disk, video_path, result, raised>>
    /\ UNCHANGED <<embed_ref, mainVars>>

SpecResolve == InitResolve /\ [][Resolve]_vars

\* ---------------------------------------------------------------- the selection alone

InitSelect ==
    /\ video_input = L_wistia_medias \o <<"a", "b", "c", "1", "2", "3", "4", "5", "6", "7">>
    /\ pc = "select"
    /\ assets \in AssetLists
    /\ Idle

\* lines 286-292 on one asset list
Select ==
    /\ pc = "select"
    /\ asset_sel' = SelectAsset(assets)
    /\ pc' = "selected"
    /\ UNCHANGED <<video_input, video_id, matched_by, assets, yt_url, yt_name, yt_site,
                   cookies, hook_file, err_kind, calls, disk, video_path, result, raised>>
    /\ UNCHANGED <<embed_ref, mainVars>>

SpecSelect == InitSelect /\ [][Select]_vars

\* ---------------------------------------------------------------- properties

\* the generic-downloader download attempts made so far, in order
IsYtdlpCall(c) == c.op = "ytdlp"

YtAttempts == SelectSeq(calls, IsYtdlpCall)

\* the input of this run has been resolved by one of the Wistia patterns and is not
\* classified as Vimeo
WistiaHosted ==
    /\ video_id /= None
    /\ matched_by \in {"4", "5", "6", "7"}
    /\ ~is_vimeo_url(video_input)

\* the platform-API attempt of this run has ended without a downloaded file
ApiAttemptFailed ==
    \E j \in DOMAIN calls :
        \/ calls[j].op \in {"api_get", "asset_get"} /\ calls[j].res = "error"
        \/ calls[j].op = "api_get" /\ calls[j].res = "ok" /\ asset_sel = 0

\* the platform API is asked first, and the generic downloader runs only after the
\* API attempt failed, on the embed URL of the canonical id
ApiFirstThenEmbed ==
    /\ pc = "returned" =>
          /\ calls /= << >>
          /\ calls[1].op = "api_get"
          /\ calls[1].url = ApiUrl(video_id)
    /\ \A i \in DOMAIN calls :
          calls[i].op = "ytdlp" =>
             /\ \E j \in 1..(i - 1) : calls[j].op = "api_get"
             /\ ApiAttemptFailed
             /\ calls[i].url = EmbedUrl(video_id)

\* C1 as stated: for every Wistia-hosted input, with or without an http(s) scheme,
\* the platform API is requested before any generic-downloader invocation, and the
\* generic downloader runs only after the API attempt failed, on the embed URL
\* https://fast.wistia.com/embed/medias/<canonical_id>.
C1_ApiFirstForEveryWistiaInput ==
    WistiaHosted => ApiFirstThenEmbed

\* C1 amended: the same for every Wistia-hosted input that does not contain the
\* substring "http"; an input that contains it goes to the generic downloader alone
\* (line 269).
C1_ApiFirstForWistiaWithoutHttp ==
    (WistiaHosted /\ ~Contains(L_http, video_input)) => ApiFirstThenEmbed

C1_Witness ==
    /\ pc = "returned"
    /\ WistiaHosted
    /\ ~Contains(L_http, video_input)
    /\ Len(calls) >= 2
    /\ calls[1].op = "api_get"
    /\ calls[Len(calls)].op = "ytdlp"

\* C2: whenever extract_and_download ends without a media path, no file written by
\* a failed attempt remains on disk (in particular no partial wistia_<id>.mp4).
C2_NoFileLeftOnFailure ==
    (pc = "returned" /\ result.path = "none") => \A f \in Files : disk[f] = "absent"

\* C3: a first attempt that fails with a cookie-access error is retried exactly once,
\* on the same URL and without the cookiesfrombrowser option; there is never a third
\* attempt, and a retry that fails makes download_video_with_ytdlp return None.
C3_SingleCookielessRetry ==
    /\ Len(YtAttempts) <= 2
    /\ Len(YtAttempts) = 2 => YtAttempts[1].res = "cookie"
    /\ (pc \in {"ed_tail", "returned"} /\ Len(YtAttempts) >= 1
          /\ YtAttempts[1].res = "cookie") =>
          /\ Len(YtAttempts) = 2
          /\ YtAttempts[2].cookies = "none"
          /\ YtAttempts[2].url = YtAttempts[1].url
          /\ (YtAttempts[2].res /= "ok" => video_path = "none")

C3_Witness ==
    /\ pc = "ed_tail"
    /\ Len(YtAttempts) = 2
    /\ YtAttempts[1].cookies = "edge"
    /\ YtAttempts[1].res = "cookie"
    /\ YtAttempts[2].res = "login"
    /\ video_path = "none"

\* C4: when the asset list holds a descriptor of type "original" (each one with a
\* url), the selection returns the url of an original-typed descriptor, whatever the
\* widths of the other descriptors.
C4_OriginalPreferred ==
    (pc = "selected"
       /\ (\E i \in DOMAIN assets : assets[i].type = "original")
       /\ (\A j \in DOMAIN assets : assets[j].type = "original" => assets[j].hasUrl)) =>
       /\ asset_sel /= 0
       /\ assets[asset_sel].type = "original"

L_wist_host == <<"w", "i", ".", "s", "t">>
L_wistia_net == <<"w", "i", "s", "t", "i", "a", ".", "n", "e", "t">>

\* the input holds no URL-like token: no "http", no known host, in any letter case
NoUrlToken(s) ==
    \A t \in {L_http, L_vimeo_host, L_wistia_host, L_wist_host, L_wistia_net} :
        ~Contains(t, Lower(s))

\* C5: an input that resolves to no identifier and holds no URL-like token makes
\* extract_and_download return (None, None) at once, with no network operation.
C5_UnresolvableNoNetwork ==
    (pc /= "ed_start" /\ video_id = None /\ NoUrlToken(video_input)) =>
       /\ calls = << >>
       /\ pc \in {"returned", "exit"}
       /\ result = NoResult

C5_Witness ==
    /\ pc = "returned"
    /\ video_input = <<"n", "o", "t", " ", "a", " ", "u", "r", "l", " ", "o", "r", " ",
                       "i", "d">>
    /\ result = NoResult
    /\ calls = << >>

\* C6: for a Vimeo download the cookie stores of browsers_to_try are attempted one
\* after another: when an attempt finds its store unusable, the next attempt uses
\* the next store of the list (and only after the last one, no store).
C6_NextStoreTried ==
    \A i \in 1..(Len(YtAttempts) - 1) :
        \A k \in DOMAIN browsers_to_try :
            (YtAttempts[i].cookies = browsers_to_try[k] /\ YtAttempts[i].res = "cookie") =>
                YtAttempts[i + 1].cookies =
                    IF k < Len(browsers_to_try) THEN browsers_to_try[k + 1] ELSE "none"

\* C7: a string of at least 8 characters, all in a-z0-9, is returned unchanged, by
\* the bare-identifier test (no URL pattern decides).
C7_BareIdReturnedUnchanged ==
    (pc = "resolved"
       /\ Len(video_input) >= MinIdLen
       /\ \A i \in DOMAIN video_input : video_input[i] \in AlnumLower) =>
       /\ video_id = video_input
       /\ matched_by = "bare"

C7_Witness ==
    /\ pc = "resolved"
    /\ Len(video_input) = MinIdLen
    /\ matched_by = "bare"
    /\ video_id = video_input
    /\ \E i \in DOMAIN video_input : video_input[i] \notin Digits

\* C8: resolution is case-insensitive and normalising: the identifier of s is the
\* identifier of lowercase(s), and it holds only lowercase letters and digits.
C8_CaseInsensitive ==
    pc = "resolved" =>
       /\ video_id = extract_video_id(Lower(video_input))
       /\ \A i \in DOMAIN video_id : video_id[i] \in AlnumLower

C8_Witness ==
    /\ pc = "resolved"
    /\ video_input /= Lower(video_input)
    /\ video_id /= None
    /\ matched_by = "1"

\* C9: an input that the player pattern player.vimeo.com/video/<digits> matches is
\* resolved by that pattern, to its digits, even when the coarser vimeo.com/<digits>
\* pattern matches the input too.
C9_PlayerPatternFirst ==
    (pc = "resolved" /\ PatternGroup(3, Lower(video_input)) /= None) =>
       /\ matched_by = "3"
       /\ video_id = PatternGroup(3, Lower(video_input))

\* C10: no failure of the metadata request, of the direct download or of the generic
\* downloader (the cookie-less retry included) leaves extract_and_download as an
\* exception, and a call that ends without a media path returns (None, None) or
\* (video_id, None).
C10_FailuresReturnValues ==
    /\ ~raised
    /\ pc /= "raised"
    /\ (pc = "returned" /\ result.path = "none") => result.id \in {None, video_id}

C10_Witness ==
    /\ pc = "returned"
    /\ Len(calls) = 3
    /\ calls[1].op = "api_get" /\ calls[1].res = "error"
    /\ calls[2].op = "ytdlp" /\ calls[2].res = "cookie"
    /\ calls[3].op = "ytdlp" /\ calls[3].res = "other"
    /\ err_kind = "Exception"
    /\ result = [id |-> video_id, path |-> "none"]
    /\ video_id /= None

\* C12: on a run whose input is classified as Vimeo (it contains vimeo.com in any
\* letter case, or is all digits) or is given as a full URL (it contains "http"), the
\* platform metadata endpoint is never requested and no asset is downloaded
\* directly: every network operation of the run is one of the generic downloader.
C12_GenericOnlyForVimeoAndRawUrl ==
    (is_vimeo_url(video_input) \/ Contains(L_http, video_input)) =>
        \A i \in DOMAIN calls : calls[i].op \in {"ytdlp", "ytdlp_info"}

C12_Witness ==
    /\ pc = "returned"
    /\ IsAllDigits(video_input)
    /\ video_id = video_input
    /\ calls /= << >>
    /\ calls[1].op = "ytdlp"
    /\ calls[1].url = L_vimeo_url \o video_input

\* the input looks URL-like whatever its letter case: it holds "http", "vimeo.com" or
\* "wistia.com" once lowercased
UrlLikeAnyCase(s) ==
    \E t \in {L_http, L_vimeo_host, L_wistia_host} : Contains(t, Lower(s))

\* C13: an input that resolves to no identifier but looks URL-like, in any letter
\* case, does not fail as unresolvable: the generic downloader is invoked on the
\* unchanged input, and nothing else is invoked.
C13_UrlLikeGoesToGeneric ==
    (pc = "returned" /\ video_id = None /\ UrlLikeAnyCase(video_input)) =>
        /\ calls /= << >>
        /\ calls[1].op = "ytdlp"
        /\ calls[1].url = video_input
        /\ \A i \in DOMAIN calls : calls[i].op \in {"ytdlp", "ytdlp_info"}

\* the asset list holds no descriptor of type "original" and at least one mp4
\* descriptor with a url, and the selection has run
SelectedAmongMp4 ==
    /\ pc = "selected"
    /\ \A i \in DOMAIN assets : assets[i].type /= "original"
    /\ \E i \in DOMAIN assets : assets[i].type = "mp4" /\ assets[i].hasUrl

\* C15 as stated: with no original in the list, the selected descriptor is the mp4
\* descriptor of largest width; among equal widths the larger height wins, and among
\* descriptors equal in both the earliest in list order.
C15_WidthThenHeightThenOrder ==
    SelectedAmongMp4 =>
        /\ asset_sel /= 0
        /\ assets[asset_sel].type = "mp4"
        /\ \A j \in DOMAIN assets :
              (j /= asset_sel /\ assets[j].type = "mp4" /\ assets[j].hasUrl) =>
                 \/ assets[asset_sel].width > assets[j].width
                 \/ /\ assets[asset_sel].width = assets[j].width
                    /\ \/ assets[asset_sel].height > assets[j].height
                       \/ /\ assets[asset_sel].height = assets[j].height
                          /\ asset_sel < j

\* C15 amended: with no original in the list, the selected descriptor is the mp4
\* descriptor (with a url) of largest key, the key being the width, or the height
\* when the width is absent or 0; among equal keys the earliest in list order wins
\* (height does not break a tie of widths); with no dimensions at all this is the
\* first eligible descriptor.
C15_LargestKeyThenOrder ==
    SelectedAmongMp4 =>
        /\ asset_sel /= 0
        /\ assets[asset_sel].type = "mp4"
        /\ assets[asset_sel].hasUrl
        /\ LET key(a) == IF a.width /= 0 THEN a.width ELSE a.height
           IN  \A j \in DOMAIN assets :
                  (assets[j].type = "mp4" /\ assets[j].hasUrl) =>
                     /\ key(assets[j]) <= key(assets[asset_sel])
                     /\ (j < asset_sel => key(assets[j]) < key(assets[asset_sel]))

C15_Witness ==
    /\ pc = "selected"
    /\ assets = <<Asset("mp4", TRUE, 1, 0), Asset("mp4", TRUE, 1, 1)>>
    /\ asset_sel = 1

\* C16: when the direct download of the platform-API strategy completes, it is the
\* last operation of the run: the generic downloader is not invoked, and
\* extract_and_download returns the canonical id with the path wistia_<id>.mp4, the
\* file being whole on disk.
C16_FirstSuccessEndsChain ==
    \A i \in DOMAIN calls :
        (calls[i].op = "asset_get" /\ calls[i].res = "ok") =>
            /\ i = Len(calls)
            /\ \A j \in DOMAIN calls : calls[j].op \notin {"ytdlp", "ytdlp_info"}
            /\ pc \in {"ed_tail", "returned"} =>
                  /\ video_path = "wistia_mp4"
                  /\ disk["wistia_mp4"] = "complete"
            /\ pc = "returned" => result = [id |-> video_id, path |-> "wistia_mp4"]

C16_Witness ==
    /\ pc = "returned"
    /\ Len(calls) = 2
    /\ calls[1].op = "api_get" /\ calls[1].res = "ok"
    /\ calls[2].op = "asset_get" /\ calls[2].res = "ok"
    /\ result = [id |-> video_id, path |-> "wistia_mp4"]
    /\ yt_site = 0

\* C18: an invocation of download_video_with_ytdlp whose URL does not contain
\* vimeo.com (in any letter case) configures no attempt with a cookiesfrombrowser
\* source, neither the first nor the retry; and a retry never carries one, whatever
\* the URL.
C18_CookiesOnlyForVimeo ==
    /\ \A i \in DOMAIN calls :
          (calls[i].op \in {"ytdlp", "ytdlp_info"}
             /\ ~Contains(L_vimeo_host, Lower(calls[i].url))) => calls[i].cookies = "none"
    /\ (pc \in {"yt_first", "yt_retry"} /\ ~Contains(L_vimeo_host, Lower(yt_url))) =>
          cookies = "none"
    /\ Len(YtAttempts) = 2 => YtAttempts[2].cookies = "none"

C18_Witness ==
    /\ pc = "ed_tail"
    /\ ~Contains(L_vimeo_host, Lower(yt_url))
    /\ Len(YtAttempts) = 2
    /\ YtAttempts[1].url = yt_url
    /\ YtAttempts[1].cookies = "none"
    /\ YtAttempts[2].cookies = "none"

\* the media files a run may write
MediaFiles == {"wistia_mp4", "video_ext", "video_fmt", "audio_wav"}

\* C11: when a KeyboardInterrupt ends the process while a download, the audio
\* extraction or the transcription is in progress, no media file, partial or whole,
\* is left on disk when the process has exited.
C11_InterruptCleansUp ==
    (pc = "exit" /\ interrupted) => \A f \in MediaFiles : disk[f] = "absent"

\* the positions inside extract_and_download
EDRunning ==
    {"ed_start", "wistia_meta", "wistia_dl", "yt_config", "yt_first", "yt_retry", "ed_tail"}

\* a step of extract_and_download that removes no file
KeepsFiles ==
    pc \in EDRunning => \A f \in Files : (disk[f] /= "absent" => disk'[f] /= "absent")

\* C14: when the download succeeded and the driver has exited without being
\* interrupted (the transcript was produced, or audio extraction or transcription
\* failed), the video path has been passed to cleanup_files, and so has the audio
\* path when extract_audio returned one; and no step of extract_and_download removes
\* a file from disk or passes one to cleanup_files.
C14_DriverCleansUp ==
    /\ [](/\ (pc = "exit" /\ ~interrupted /\ ~DownloadFailed(result)) =>
               /\ result.path \in cleaned
               /\ audio_path /= "none" => audio_path \in cleaned
          /\ pc \in EDRunning \cup {"returned"} => cleaned = {})
    /\ [][KeepsFiles]_vars

C14_Witness ==
    /\ pc = "exit"
    /\ exit_code = 1
    /\ ~interrupted
    /\ result.path = "wistia_mp4"
    /\ audio_path = "audio_wav"
    /\ transcript = "none"
    /\ cleaned = {"wistia_mp4", "audio_wav"}
    /\ disk["wistia_mp4"] = "absent"

StageOrder == <<"extract_audio", "transcribe_audio", "save_transcript">>

\* the stages run in order, each one only after its predecessor delivered: the
\* download an id and a path, extract_audio a path, transcribe_audio a text; once
\* one of them has failed no later stage is invoked
StagesGated ==
    /\ Len(stages) <= Len(StageOrder)
    /\ \A i \in DOMAIN stages : stages[i] = StageOrder[i]
    /\ Len(stages) >= 1 =>
          /\ pc \notin EDRunning
          /\ result.id /= None
          /\ result.path /= "none"
    /\ Len(stages) >= 2 => audio_path /= "none"
    /\ Len(stages) >= 3 => transcript = "text"
    /\ exit_code \in {0, 1} => pc = "exit"

\* the run has exited, uninterrupted, after the download, the audio extraction or
\* the transcription failed
EarlyStageFailed ==
    /\ pc = "exit"
    /\ ~interrupted
    /\ \/ result.id = None \/ result.path = "none"
       \/ audio_path = "none"
       \/ transcript = "none"

\* the run has exited after save_transcript failed to write the file
SaveFailed ==
    /\ pc = "exit"
    /\ Len(stages) = 3
    /\ disk["transcript_txt"] /= "complete"

\* C19 as stated: the stages are gated, and whichever stage fails first (the saving
\* of the transcript included), the process exits with status 1.
C19_GatedStagesExitOne ==
    /\ StagesGated
    /\ (EarlyStageFailed \/ SaveFailed) => exit_code = 1

\* C19 amended: the stages are gated; when the download, the audio extraction or the
\* transcription fails, the process exits with status 1; once save_transcript has
\* been invoked the process exits with status 0, whether the file was written or not.
C19_GatedStagesExitOneBeforeSave ==
    /\ StagesGated
    /\ EarlyStageFailed => exit_code = 1
    /\ (pc = "exit" /\ Len(stages) = 3) => exit_code = 0

C19_Witness ==
    /\ pc = "exit"
    /\ stages = <<"extract_audio", "transcribe_audio">>
    /\ audio_path = "audio_wav"
    /\ transcript = "none"
    /\ exit_code = 1

\* C17 as stated: when the metadata document offers no asset URL and holds an embed
\* reference, the platform-API strategy fetches the metadata a second time (from the
\* URL derived from the reference) before the generic downloader is called.
C17_FallbackExtractionAttempted ==
    (yt_site = 321 /\ embed_ref) =>
        Cardinality({j \in DOMAIN calls : calls[j].op = "api_get"}) = 2

\* C17 amended: when the metadata document offers no asset URL, no further
\* extraction is attempted, whether or not the document holds an embed reference:
\* the single metadata request is followed at once by the generic downloader, on
\* https://fast.wistia.com/embed/medias/<id>.
C17_NoFallbackExtraction ==
    yt_site = 321 =>
        /\ asset_sel = 0
        /\ yt_url = L_embed_url \o video_id
        /\ calls /= << >>
        /\ calls[1].op = "api_get" /\ calls[1].res = "ok"
        /\ \A j \in 2..Len(calls) :
              /\ calls[j].op \in {"ytdlp", "ytdlp_info"}
              /\ calls[j].url = L_embed_url \o video_id

C17_Witness ==
    /\ pc = "returned"
    /\ yt_site = 321
    /\ embed_ref
    /\ assets /= << >>
    /\ Len(calls) = 2
    /\ calls[2].op = "ytdlp"

\* the number of operations op performed so far
Count(op) == Cardinality({j \in DOMAIN calls : calls[j].op = op})

\* a measure of the position inside extract_and_download
PcRank(p) ==
    CASE p = "ed_start" -> 7
      [] p = "wistia_meta" -> 6
      [] p = "wistia_dl" -> 5
      [] p = "yt_config" -> 4
      [] p = "yt_first" -> 3
      [] p = "yt_retry" -> 2
      [] p = "ed_tail" -> 1
      [] OTHER -> 0

\* a step taken inside extract_and_download moves strictly forward
EDAdvances == pc \in EDRunning => PcRank(pc') < PcRank(pc)

\* C20: a run of extract_and_download makes at most one metadata request, at most
\* one direct asset download and at most two download invocations of the generic
\* downloader (at most four network operations in all), and every step inside it
\* moves to a later position of the code, so that it ends after at most seven steps.
C20_BoundedAttempts ==
    /\ [](/\ Count("api_get") <= 1
          /\ Count("asset_get") <= 1
          /\ Count("ytdlp") <= 2
          /\ Count("ytdlp_info") <= 1
          /\ Len(calls) <= 4)
    /\ [][EDAdvances]_vars

C20_Witness ==
    /\ pc = "returned"
    /\ Len(calls) = 4
    /\ calls[1].op = "api_get"
    /\ calls[2].op = "asset_get"
    /\ calls[3].op = "ytdlp" /\ calls[3].res = "cookie"
    /\ calls[4].op = "ytdlp" /\ calls[4].res = "cookie"

\* C21: whenever extract_and_download is about to return, or has returned, a media
\* path, that path names a file that is on disk, whole, and the strategy that wrote
\* it reported success on this run: wistia_<id>.mp4 follows a completed asset
\* download, a yt-dlp file follows a ydl.download that returned (the latest one).
\* In particular a name the progress hook recorded is returned only while its file
\* exists, after the retry as after the first attempt.
C21_ReturnedPathExists ==
    /\ (pc \in {"ed_tail", "returned"} /\ video_path /= "none") =>
          /\ video_path \in Files
          /\ disk[video_path] = "complete"
          /\ calls /= << >>
          /\ IF video_path = "wistia_mp4"
             THEN /\ calls[Len(calls)].op = "asset_get"
                  /\ calls[Len(calls)].res = "ok"
             ELSE /\ YtAttempts /= << >>
                  /\ YtAttempts[Len(YtAttempts)].res = "ok"
    /\ pc = "returned" => result.path = video_path

\* the retry returned a file although the hook of the failed first attempt had
\* recorded a name whose file is gone
C21_Witness ==
    /\ pc = "returned"
    /\ Len(YtAttempts) = 2
    /\ YtAttempts[2].res = "ok"
    /\ err_kind = "DownloadError"
    /\ hook_file = "video_fmt"
    /\ disk["video_fmt"] = "absent"
    /\ result.path = "video_ext"

====
